---- MODULE Spec2Model ----
(***************************************************************************)
(* Chat session / assistant dispatch / conversation persistence of the SAA *)
(* portfolio backend (app/app.py), with the parts of the two assistant     *)
(* handlers (app/assistants) and of the ORM model (app/models/portfolio.py)*)
(* that decide what a dispatch emits and what it stores.                   *)
(*                                                                         *)
(* Every socket event handler runs in its own thread (async_mode =         *)
(* 'threading'), so dispatches interleave at the points where a thread     *)
(* touches shared state: the session registry, the rooms, the database.    *)
(***************************************************************************)
EXTENDS Integers, Sequences, FiniteSets, TLC

\* ---------------------------------------------------------------- bounds
\* Chat messages the clients send in one behaviour.
MaxDispatch == 2
\* Largest value the wall clock (datetime.utcnow) reaches.
MaxClock == 1
\* Most messages a conversation row holds when its history is requested.
MaxStored == 12

\* ---------------------------------------------------------------- inputs
\* Transport connection ids (request.sid); each is used by one connection.
Transports == {"t1", "t2"}
\* Values of session['session_id'] a connecting client may carry; <<>> is
\* a client without one.
Cookies == {<<>>, <<"s1">>}
\* data['assistant'] of a chat message.
AssistantTags == {"analyst", "optimizer", "bogus"}
\* data['message'] of a chat message.
Messages == {"", "rebalance please"}
\* data['portfolio_id'] of a chat message; <<>> is a message without one,
\* "px" is an id the portfolio store does not contain.
PortfolioIds == {<<>>, <<"p1">>, <<"p0">>, <<"px">>}

\* Rows of the portfolios table with their holdings.  "p1" is the valued
\* portfolio of the end-to-end scenario; "p0" is a portfolio as the
\* /api/portfolio routes leave it: total_value 0.0 and a holding whose
\* current_value was never set (NULL, here <<>>).
PortfolioStore ==
    [p \in {"p1", "p0"} |->
        IF p = "p1"
        THEN [portfolio_id |-> "p1", total_value |-> 100,
              risk_tolerance |-> "aggressive", investment_horizon |-> 10,
              holdings |-> << [symbol |-> "EQ", current_value |-> <<70>>,
                               asset_class |-> "equity"],
                              [symbol |-> "FI", current_value |-> <<30>>,
                               asset_class |-> "fixed_income"] >>]
        ELSE [portfolio_id |-> "p0", total_value |-> 0,
              risk_tolerance |-> "moderate", investment_horizon |-> 5,
              holdings |-> << [symbol |-> "NEW", current_value |-> <<>>,
                               asset_class |-> "equity"] >>]]

\* ----------------------------------------------------------------- state
VARIABLES
    tstate,           \* transport -> "off" (never connects) | "new" |
                      \*              "open" | "closed" | "reclosed" | "failed"
    pending,          \* chat messages the clients have yet to send
    active_sessions,  \* the registry dict: registered transport -> session id
    rooms,            \* transport -> set of rooms (session ids) it has joined
    minted,           \* number of uuid4 session ids minted so far
    direct,           \* transport -> events emitted to that transport alone
    dispatches,       \* one record per accepted chat message, in arrival order
    calls,            \* handler tag -> number of invocations of that handler
    users,            \* user_id values of the rows of the users table
    conversations,    \* rows of the conversations table, index = primary key
    now,              \* the wall clock
    env,              \* credential name -> its value in the process environment
    boot,             \* where the import of app.py stands: the assistant it
                      \* constructs next, "serving" or "failed"
    assistants,       \* constructed handler tag -> the api key its client holds
    history,          \* body of the last /api/conversation/history response
    cache,            \* handler tag -> its response cache (analysis_cache,
                      \* optimization_cache): cache key -> cached result
    _cache,           \* market_service._cache: cache key -> asset data
    _cache_expiry,    \* market_service._cache_expiry: cache key -> time
    utcnow,           \* datetime.utcnow() as the market service reads it,
                      \* in minutes
    fetching,         \* get_asset_data call -> the fetch it awaits, or <<>>
    returned,         \* get_asset_data call -> what it returned last
    fetched,          \* number of fetches started so far
    valid,            \* the last direct _is_cache_valid call: key, result
    current_allocation,  \* get_rebalancing_trades' arguments ...
    target_allocation,
    portfolio_value,
    trades            \* ... and its return value (<<>>: not called yet)

\* What a socket event handler never touches.
market == <<_cache, _cache_expiry, utcnow, fetching, returned, fetched, valid>>
rebalancing == <<current_allocation, target_allocation, portfolio_value, trades>>
outside == <<env, boot, assistants, history, market, rebalancing>>
regVars == <<tstate, active_sessions, rooms, minted, direct, outside>>
saveFrame == <<tstate, pending, active_sessions, rooms, minted, direct, calls,
               outside, cache>>
chat == <<tstate, pending, active_sessions, rooms, minted, direct,
          dispatches, calls, users, conversations, now,
          env, boot, assistants, history, cache>>
vars == <<chat, market, rebalancing>>

\* ------------------------------------------------------- values, payloads
\* uuid.uuid4() results, in the order they are drawn: pairwise distinct and
\* distinct from every cookie value.
UuidPool == <<"u1", "u2">>

\* The response slot of an event that carries none, and of a dispatch
\* whose `response` local is not yet bound.
NoResponse == [status |-> "unset", field |-> "unset"]

\* app.py:243-246 and 258-261: the fixed payload of a known assistant
\* without a portfolio.
NoPortfolioResponse(assistant_type) ==
    [status |-> "no_portfolio",
     field |-> IF assistant_type = "analyst" THEN "analysis" ELSE "optimization"]

\* app.py:264: the payload of an unknown tag, a dict with the single key
\* 'error' and no 'status'.
UnknownResponse == [status |-> "absent", field |-> "error"]

\* _parse_analysis_response / _parse_optimization_response: what a handler
\* returns when the remote model call returned.
SuccessResponse(assistant_type) ==
    [status |-> "success",
     field |-> IF assistant_type = "analyst" THEN "analysis" ELSE "optimization"]

\* The `except Exception` branch of analyze_portfolio / optimize_portfolio:
\* what a handler returns when the remote model call raised.
FailedResponse == [status |-> "failed", field |-> "error"]

Event(kind, room, assistant, response, to) ==
    [kind |-> kind, room |-> room, assistant |-> assistant,
     response |-> response, to |-> to]

\* The transports a socketio.emit(..., room=r) is delivered to.
RoomMembers(r) == {t \in Transports : r \in rooms[t]}

\* handle_chat_message, app.py:197-218: the portfolio snapshot, <<>> for
\* None (no portfolio_id, a falsy one, or an id the store does not hold).
MakePortfolioData(portfolio_id) ==
    IF portfolio_id = <<>> THEN <<>>
    ELSE IF portfolio_id[1] \in DOMAIN PortfolioStore
         THEN << PortfolioStore[portfolio_id[1]] >>
         ELSE <<>>

\* _prepare_portfolio_context (analyst, line 161) and
\* _calculate_current_allocation (optimizer, line 184) divide each holding's
\* current_value by total_value outside the handler's try block: a NULL
\* current_value raises TypeError, a zero total_value ZeroDivisionError.
\* With None for the portfolio the first .get raises AttributeError.
PrepareRaises(pd) ==
    \/ pd = << >>
    \/ \E i \in 1..Len(pd[1].holdings) :
           \/ pd[1].holdings[i].current_value = << >>
           \/ pd[1].total_value = 0

\* --------------------------------------------- process_assistant_message
\* Mutant of TypingEmits: the typing indicator is not emitted.
TypingEmits_Dropped(assistant_type, session_id) == << >>

\* app.py:236: what the dispatch emits on entry, before anything else.
TypingEmits(assistant_type, session_id) ==
    << Event("assistant_typing", session_id, assistant_type, NoResponse,
             RoomMembers(session_id)) >>

\* Mutant of Route: the handlers are invoked without the `if portfolio_data`
\* tests of lines 240 and 250.
Route_NoPortfolioCheck(assistant_type, pd) ==
    IF assistant_type \in {"analyst", "optimizer"}
    THEN [invoke |-> assistant_type, response |-> NoResponse]
    ELSE [invoke |-> "none", response |-> UnknownResponse]

\* Mutant of Route: the final else of line 263 falls back to the analyst.
Route_DefaultAnalyst(assistant_type, pd) ==
    IF assistant_type = "optimizer"
    THEN IF pd # <<>>
         THEN [invoke |-> "optimizer", response |-> NoResponse]
         ELSE [invoke |-> "none", response |-> NoPortfolioResponse("optimizer")]
    ELSE IF pd # <<>>
         THEN [invoke |-> "analyst", response |-> NoResponse]
         ELSE [invoke |-> "none", response |-> NoPortfolioResponse("analyst")]

\* app.py:238-264: which handler the dispatch invokes ("none": no handler)
\* and, when it invokes none, the response it synthesises.
Route(assistant_type, pd) ==
    IF assistant_type = "analyst"
    THEN IF pd # <<>>
         THEN [invoke |-> "analyst", response |-> NoResponse]
         ELSE [invoke |-> "none", response |-> NoPortfolioResponse("analyst")]
    ELSE IF assistant_type = "optimizer"
    THEN IF pd # <<>>
         THEN [invoke |-> "optimizer", response |-> NoResponse]
         ELSE [invoke |-> "none", response |-> NoPortfolioResponse("optimizer")]
    ELSE [invoke |-> "none", response |-> UnknownResponse]

\* Mutant of ResponseEmits: the emit has no room argument and goes to every
\* registered transport.
ResponseEmits_Broadcast(assistant_type, response, session_id) ==
    << Event("assistant_response", session_id, assistant_type, response,
             DOMAIN active_sessions) >>

\* app.py:267-271: the event that delivers the response.
ResponseEmits(assistant_type, response, session_id) ==
    << Event("assistant_response", session_id, assistant_type, response,
             RoomMembers(session_id)) >>

\* Mutant of ExceptEmits: the except clause also answers with a fallback
\* assistant_response.
ExceptEmits_AndFallback(assistant_type, session_id) ==
    << Event("error", session_id, assistant_type, NoResponse,
             RoomMembers(session_id)),
       Event("assistant_response", session_id, assistant_type, FailedResponse,
             RoomMembers(session_id)) >>

\* app.py:276-279: the event emitted when anything in the try block raised.
ExceptEmits(assistant_type, session_id) ==
    << Event("error", session_id, assistant_type, NoResponse,
             RoomMembers(session_id)) >>

\* Mutant of SaveExceptEmits: save_conversation lets the exception out, and
\* the except clause of process_assistant_message (line 276) emits.
SaveExceptEmits_Propagates(assistant_type, session_id) ==
    << Event("error", session_id, assistant_type, NoResponse,
             RoomMembers(session_id)) >>

\* app.py:320-321: save_conversation catches every exception of its body
\* and prints it; nothing is emitted and nothing propagates to the caller.
SaveExceptEmits(assistant_type, session_id) == << >>

\* The record of a dispatch as handle_chat_message starts it: the session
\* id and the three fields of the chat message (app.py:187-194).  pc is the
\* thread's position ("await": inside the remote model call; "save": about
\* to call save_conversation; "commit": about to commit; "done"); conv,
\* msgs, aliased, lastAt are save_conversation's locals, which end with the
\* call; handler is the handler the dispatch invoked and invokedAt the
\* number of events it had emitted when it did ("none", -1: it invoked
\* none); raised says that the handler raised; constraints is the
\* constraints dict passed to the optimizer (<<>>: none was built); remote
\* counts the remote model calls the dispatch issued and keyCached says
\* that the handler's cache held the dispatch's cache key when the handler
\* was invoked; saved is how its save_conversation call ended ("none": not
\* called or not ended).
NewDispatch(session_id, assistant_type, message, portfolio_id) ==
    [sid |-> session_id, assistant |-> assistant_type, message |-> message,
     portfolio_id |-> portfolio_id, pc |-> "start", response |-> NoResponse,
     events |-> << >>, handler |-> "none", invokedAt |-> -1,
     raised |-> FALSE, constraints |-> << >>, remote |-> 0,
     keyCached |-> FALSE,
     conv |-> 0, msgs |-> << >>, aliased |-> FALSE, lastAt |-> 0,
     saved |-> "none"]

\* Mutant of Respond: assistant_type is a name shared by the threads, so
\* the response is tagged with the assistant of a dispatch that is in its
\* remote call at that moment.
Respond_SharedTag(d, response) ==
    LET others == {j \in DOMAIN dispatches :
                      /\ dispatches[j].pc = "await"
                      /\ dispatches[j].assistant # d.assistant}
        tag == IF others = {} THEN d.assistant
               ELSE dispatches[CHOOSE j \in others : TRUE].assistant
    IN  [d EXCEPT !.response = response,
                  !.events = @ \o ResponseEmits(tag, response, d.sid),
                  !.pc = "save"]

\* app.py:266-274: the response is bound; it is emitted and the thread
\* goes on to save_conversation.
Respond(d, response) ==
    [d EXCEPT !.response = response,
              !.events = @ \o ResponseEmits(d.assistant, response, d.sid),
              !.pc = "save"]

\* Mutant of Except: the exchange is saved although the handler raised, as
\* a save placed in a finally clause would.
Except_Persists(d) ==
    [d EXCEPT !.raised = TRUE,
              !.events = @ \o ExceptEmits(d.assistant, d.sid),
              !.pc = "save"]

\* app.py:276-279: the handler raised out of the try block; the except
\* clause emits and the dispatch is over.
Except(d) ==
    [d EXCEPT !.raised = TRUE,
              !.events = @ \o ExceptEmits(d.assistant, d.sid),
              !.pc = "done"]

\* dict.get(key, default).
Get(dict, key, default) == IF key \in DOMAIN dict THEN dict[key] ELSE default

\* Mutant of Constraints: the constraints are the defaults, whatever the
\* portfolio says.
Constraints_Defaults(portfolio_data) ==
    [risk_tolerance |-> "moderate", investment_horizon |-> 5]

\* app.py:253-256: the constraints dict of an optimizer dispatch.
Constraints(portfolio_data) ==
    [risk_tolerance |-> Get(portfolio_data, "risk_tolerance", "moderate"),
     investment_horizon |-> Get(portfolio_data, "investment_horizon", 5)]

\* _generate_cache_key of the analyst (lines 189-195) and of the optimizer
\* (lines 210-218): the portfolio id and the holdings' symbols, for the
\* optimizer also the constraints.  hash() is injective on the few values
\* that occur, so the key is kept as the tuple that is hashed; no portfolio
\* of the store holds a symbol twice, so the sorted symbol list is kept as
\* the set of symbols.
CacheKey(h, portfolio_data, constraints) ==
    [portfolio_id |-> Get(portfolio_data, "portfolio_id", ""),
     symbols |-> {portfolio_data.holdings[k].symbol :
                     k \in 1..Len(portfolio_data.holdings)},
     constraints |-> IF h = "optimizer" THEN constraints ELSE << >>]

\* Mutant of CacheLookup: the handler returns the cached result of its
\* cache key when it has one.
CacheLookup_Reads(store, key) ==
    IF key \in DOMAIN store THEN << store[key] >> ELSE << >>

\* analyze_portfolio lines 84-107 / optimize_portfolio lines 98-116: what
\* the handler takes from its cache before the remote call.  Neither
\* handler reads its cache anywhere: nothing.
CacheLookup(store, key) == << >>

\* app.py:234-264 up to the point where the thread blocks in the remote
\* model call: the typing event, the routing, for a routed dispatch the
\* handler's entry (for the optimizer after the constraints were built; its
\* context preparation, which may raise, and the start of its remote
\* call), and for an unrouted one the response.  A handler entered with
\* None for the portfolio raises at its first .get.
EnterDispatch(d) ==
    LET typed == [d EXCEPT !.events = @ \o TypingEmits(d.assistant, d.sid)]
        portfolio_data == MakePortfolioData(d.portfolio_id)
        r == Route(d.assistant, portfolio_data)
    IN  IF r.invoke = "none"
        THEN Respond(typed, r.response)
        ELSE IF portfolio_data = << >>
        THEN Except([typed EXCEPT !.invokedAt = Len(typed.events),
                                  !.handler = r.invoke])
        ELSE LET constraints == IF r.invoke = "optimizer"
                                THEN << Constraints(portfolio_data[1]) >>
                                ELSE << >>
                 key == CacheKey(r.invoke, portfolio_data[1], constraints)
                 hit == CacheLookup(cache[r.invoke], key)
                 inv == [typed EXCEPT !.invokedAt = Len(typed.events),
                                      !.handler = r.invoke,
                                      !.constraints = constraints,
                                      !.keyCached =
                                          key \in DOMAIN cache[r.invoke]]
             IN  IF PrepareRaises(portfolio_data)
                 THEN Except(inv)
                 ELSE IF hit # << >>
                 THEN Respond(inv, hit[1])
                 ELSE [inv EXCEPT !.pc = "await", !.remote = 1]

\* ---------------------------------------------------- market data service
\* Ticker symbols and asset types of get_asset_data calls, and the calls
\* that can be in progress at a time (the requests of /api/market/price,
\* the tasks of get_bulk_prices).
Symbols == {"AAPL"}
AssetTypes == {"stock", "index"}
Requests == {"r1", "r2"}
\* Minutes that pass between two steps of the service.
Ticks == {7, 8}
MaxTime == 16
MaxFetch == 3

\* market_data.py:31: timedelta(minutes=15).
cache_duration == 15

\* market_data.py:45: f"{symbol}_{asset_type}", kept as the pair.
cache_key(symbol, asset_type) == <<symbol, asset_type>>

Keys == {cache_key(symbol, asset_type) :
            symbol \in Symbols, asset_type \in AssetTypes}

\* market_data.py:29-30 (app.py:44 constructs the service): empty maps.
NoMarketData ==
    /\ _cache = << >>
    /\ _cache_expiry = << >>
    /\ utcnow = 0
    /\ fetching = [r \in Requests |-> << >>]
    /\ returned = [r \in Requests |-> [kind |-> "none", symbol |-> "",
                                       data |-> << >>]]
    /\ fetched = 0
    /\ valid = [key |-> << >>, result |-> FALSE]

\* del d[key] guarded by `key in d`, and d[key] = value.
Without(d, key) == [k \in DOMAIN d \ {key} |-> d[k]]
With(d, key, value) ==
    [k \in DOMAIN d \cup {key} |-> IF k = key THEN value ELSE d[k]]

\* Mutant of _is_cache_valid: an entry is still valid at its expiry time.
_is_cache_valid_Inclusive(c, e, key, t) ==
    IF key \notin DOMAIN c
    THEN [valid |-> FALSE, cache |-> c, expiry |-> e]
    ELSE IF key \in DOMAIN e /\ t <= e[key]
    THEN [valid |-> TRUE, cache |-> c, expiry |-> e]
    ELSE [valid |-> FALSE, cache |-> Without(c, key),
          expiry |-> Without(e, key)]

\* market_data.py:355-370 on the maps c (_cache) and e (_cache_expiry) at
\* time t: the result and the maps after the call.  `expiry and ...`: a
\* key without expiry (None) is treated as expired.
_is_cache_valid(c, e, key, t) ==
    IF key \notin DOMAIN c
    THEN [valid |-> FALSE, cache |-> c, expiry |-> e]
    ELSE IF key \in DOMAIN e /\ t < e[key]
    THEN [valid |-> TRUE, cache |-> c, expiry |-> e]
    ELSE [valid |-> FALSE, cache |-> Without(c, key),
          expiry |-> Without(e, key)]

\* Mutant of Store: the expiry is not recorded.
Store_CacheOnly(c, e, key, data, t) ==
    [cache |-> With(c, key, data), expiry |-> e]

\* market_data.py:56-57: the fetched data is cached with its expiry.
Store(c, e, key, data, t) ==
    [cache |-> With(c, key, data),
     expiry |-> With(e, key, t + cache_duration)]

\* market_data.py:50-53: Yahoo Finance for stocks and ETFs (settings.py:36
\* enables it), Alpha Vantage for everything else.
FetchSource(asset_type) ==
    IF asset_type \in {"stock", "etf"} THEN "yahoo" ELSE "alpha_vantage"

\* The ways a fetch can end: with data, by raising, and, for Alpha Vantage
\* (market_data.py:110-111, 137-138), by returning an error structure.
FetchOutcomes(asset_type) ==
    IF FetchSource(asset_type) = "yahoo" THEN {"data", "raises"}
    ELSE {"data", "raises", "unavailable"}

\* Time passes.
tick(minutes) ==
    /\ utcnow + minutes <= MaxTime
    /\ utcnow' = utcnow + minutes
    /\ UNCHANGED <<_cache, _cache_expiry, fetching, returned, fetched, valid,
                   chat, rebalancing>>

\* A direct call of _is_cache_valid, as the service's tests make it.
is_cache_valid(key) ==
    /\ LET v == _is_cache_valid(_cache, _cache_expiry, key, utcnow)
       IN  /\ _cache' = v.cache
           /\ _cache_expiry' = v.expiry
           /\ valid' = [key |-> key, result |-> v.valid]
    /\ UNCHANGED <<utcnow, fetching, returned, fetched, chat, rebalancing>>

\* market_data.py:44-53: get_asset_data up to its await: the cached value
\* is returned, or the fetch is started.
get_asset_data_begin(r, symbol, asset_type) ==
    /\ fetching[r] = << >>
    /\ LET key == cache_key(symbol, asset_type)
           v == _is_cache_valid(_cache, _cache_expiry, key, utcnow)
       IN  IF v.valid
           THEN /\ returned' = [returned EXCEPT ![r] =
                       [kind |-> "cached", symbol |-> symbol,
                        data |-> << _cache[key] >>]]
                /\ UNCHANGED <<_cache, _cache_expiry, fetching, fetched>>
           ELSE /\ fetched < MaxFetch
                /\ _cache' = v.cache
                /\ _cache_expiry' = v.expiry
                /\ fetched' = fetched + 1
                /\ fetching' = [fetching EXCEPT ![r] =
                       << [symbol |-> symbol, asset_type |-> asset_type,
                           serial |-> fetched + 1] >>]
                /\ returned' = [returned EXCEPT ![r] =
                       [kind |-> "none", symbol |-> "", data |-> << >>]]
    /\ UNCHANGED <<utcnow, valid, chat, rebalancing>>

\* market_data.py:55-66: the fetch ends.  Its result is cached and
\* returned, an error structure that the fetch returned included; when it
\* raised, the except clause returns the error structure with the symbol.
get_asset_data_end(r, outcome) ==
    /\ fetching[r] # << >>
    /\ LET f == fetching[r][1]
           key == cache_key(f.symbol, f.asset_type)
           data == [symbol |-> f.symbol, serial |-> f.serial,
                    error |-> outcome = "unavailable"]
           stored == Store(_cache, _cache_expiry, key, data, utcnow)
       IN  /\ outcome \in FetchOutcomes(f.asset_type)
           /\ IF outcome = "raises"
              THEN /\ returned' = [returned EXCEPT ![r] =
                          [kind |-> "error", symbol |-> f.symbol,
                           data |-> << >>]]
                   /\ UNCHANGED <<_cache, _cache_expiry>>
              ELSE /\ returned' = [returned EXCEPT ![r] =
                          [kind |-> "fetched", symbol |-> f.symbol,
                           data |-> << data >>]]
                   /\ _cache' = stored.cache
                   /\ _cache_expiry' = stored.expiry
    /\ fetching' = [fetching EXCEPT ![r] = << >>]
    /\ UNCHANGED <<utcnow, fetched, valid, chat, rebalancing>>

\* The market data service on its own.
NextMarket ==
    \/ \E minutes \in Ticks : tick(minutes)
    \/ \E key \in Keys : is_cache_valid(key)
    \/ \E r \in Requests, symbol \in Symbols, asset_type \in AssetTypes :
           get_asset_data_begin(r, symbol, asset_type)
    \/ \E r \in Requests, outcome \in {"data", "raises", "unavailable"} :
           get_asset_data_end(r, outcome)

\* -------------------------------------------------- get_rebalancing_trades
\* Asset classes, allocation percentages and portfolio values of the calls.
AssetClasses == {"equity", "bonds", "cash"}
Points == {5, 6, 7}
Values == {0, 100000}
Allocations == UNION {[S -> Points] : S \in SUBSET AssetClasses}

\* No call of get_rebalancing_trades.
NoRebalancing ==
    /\ current_allocation = << >>
    /\ target_allocation = << >>
    /\ portfolio_value = 0
    /\ trades = << >>

\* The arithmetic of get_rebalancing_trades is that of IEEE-754 binary64.
\* A value is kept as whole + excess * 2^-40.  (pct / 100) * value is the
\* exact product except for 7 percent of 100000, where 7 / 100 is rounded
\* up and the product is 7000 + 2^-40 (7000.000000000001); 0, 5 and 6
\* percent of 100000 and 0.01 * 100000 are exact, and so are the
\* differences of these values.
PercentOf(pct, value) ==
    [whole |-> (pct * value) \div 100,
     excess |-> IF pct = 7 /\ value = 100000 THEN 1 ELSE 0]

Minus(a, b) == [whole |-> a.whole - b.whole, excess |-> a.excess - b.excess]

Positive(a) == a.whole > 0 \/ (a.whole = 0 /\ a.excess > 0)

\* abs(x).
Magnitude(a) ==
    IF Positive(a) THEN a ELSE [whole |-> 0 - a.whole, excess |-> 0 - a.excess]

\* a > b.
Greater(a, b) == Positive(Minus(a, b))

\* portfolio_optimizer.py:480-495, the body of the loop for one asset
\* class: the trade it appends, if any.
TradeFor(asset_class, current, target, value) ==
    LET current_pct == Get(current, asset_class, 0)
        target_pct == Get(target, asset_class, 0)
        current_value == PercentOf(current_pct, value)
        target_value == PercentOf(target_pct, value)
        trade_value == Minus(target_value, current_value)
    IN  IF Greater(Magnitude(trade_value), PercentOf(1, value))
        THEN << [asset_class |-> asset_class,
                 action |-> IF Positive(trade_value) THEN "buy" ELSE "sell",
                 amount |-> Magnitude(trade_value),
                 current_allocation |-> current_pct,
                 target_allocation |-> target_pct] >>
        ELSE << >>

\* The loop of line 480 over the first n asset classes of `order`.
RECURSIVE TradesUpTo(_, _, _, _, _)
TradesUpTo(n, order, current, target, value) ==
    IF n = 0 THEN << >>
    ELSE TradesUpTo(n - 1, order, current, target, value)
         \o TradeFor(order[n], current, target, value)

\* sorted(..., key=amount, reverse=True) is stable: an element goes behind
\* the elements of at least its amount that precede it.
RECURSIVE SortedByAmount(_)
SortedByAmount(list) ==
    IF list = << >> THEN << >>
    ELSE LET n == Len(list)
             x == list[n]
             front == SortedByAmount(SubSeq(list, 1, n - 1))
             ahead == {k \in 1..Len(front) :
                          ~Greater(x.amount, front[k].amount)}
             m == Cardinality(ahead)
         IN  SubSeq(front, 1, m) \o << x >> \o SubSeq(front, m + 1, Len(front))

\* The orders in which `for asset_class in set(...)` can visit the keys.
Orders(keys) ==
    {o \in [1..Cardinality(keys) -> keys] :
        \A i, j \in 1..Cardinality(keys) : i # j => o[i] # o[j]}

\* portfolio_optimizer.py:464-498.
get_rebalancing_trades(order) ==
    /\ trades = << >>
    /\ order \in Orders(DOMAIN current_allocation \cup DOMAIN target_allocation)
    /\ trades' = << SortedByAmount(
                       TradesUpTo(Len(order), order, current_allocation,
                                  target_allocation, portfolio_value)) >>
    /\ UNCHANGED <<current_allocation, target_allocation, portfolio_value,
                   chat, market>>

NextTrades ==
    \E order \in UNION {Orders(S) : S \in SUBSET AssetClasses} :
        get_rebalancing_trades(order)

\* ------------------------------------------------------- session registry
\* config/settings.py:28-29: the two credentials, read with os.getenv.
CredentialOf ==
    [h \in {"analyst", "optimizer"} |->
        IF h = "analyst" THEN "CLAUDE_API_KEY_ANALYST"
        ELSE "CLAUDE_API_KEY_OPTIMIZER"]

\* Values of a credential: <<>> is an unset variable (None).
Credentials == {<< >>, <<"">>, <<"k">>}

\* app.py:46: no session.  `clients` are the transports that will connect,
\* `messages` the number of chat messages they will send.
NoSessions(clients, messages) ==
    /\ tstate = [t \in Transports |-> IF t \in clients THEN "new" ELSE "off"]
    /\ pending = messages
    /\ active_sessions = << >>
    /\ rooms = [t \in Transports |-> {}]
    /\ minted = 0
    /\ direct = [t \in Transports |-> << >>]
    /\ dispatches = << >>
    /\ calls = [h \in {"analyst", "optimizer"} |-> 0]
    /\ now = 0
    /\ history = << >>
    /\ cache = [h \in {"analyst", "optimizer"} |-> << >>]
    /\ NoMarketData

\* app.py:36-47 apart from the assistants: no session, and the tables that
\* create_all has just created.
Idle(clients, messages) ==
    /\ NoSessions(clients, messages)
    /\ NoRebalancing
    /\ users = {}
    /\ conversations = << >>

\* The state after app.py has been imported in an environment that holds
\* both credentials: both assistants exist and the server accepts
\* connections.
Start(clients, messages) ==
    /\ env = [n \in {"CLAUDE_API_KEY_ANALYST", "CLAUDE_API_KEY_OPTIMIZER"}
                 |-> <<"k">>]
    /\ boot = "serving"
    /\ assistants = [h \in {"analyst", "optimizer"} |-> "k"]
    /\ Idle(clients, messages)

\* One client sending MaxDispatch chat messages.
Init == Start({"t1"}, MaxDispatch)

\* Mutant of ConnectSessionId: the session's id is ignored and a uuid4 is
\* used for every connection.
ConnectSessionId_AlwaysMints(cookie) == UuidPool[minted + 1]

\* app.py:169: the caller's session id when it has one, else a fresh uuid4.
ConnectSessionId(cookie) ==
    IF cookie # <<>> THEN cookie[1] ELSE UuidPool[minted + 1]

\* app.py:166-172, the 'connect' event of transport t.
handle_connect(t, cookie) ==
    /\ boot = "serving"
    /\ tstate[t] = "new"
    /\ LET session_id == ConnectSessionId(cookie)
       IN  /\ rooms' = [rooms EXCEPT ![t] = @ \cup {session_id}]
           /\ active_sessions' =
                  [x \in DOMAIN active_sessions \cup {t} |->
                      IF x = t THEN session_id ELSE active_sessions[x]]
           /\ direct' = [direct EXCEPT ![t] =
                  Append(@, Event("connected", session_id, "", NoResponse, {t}))]
    /\ minted' = IF cookie # <<>> THEN minted ELSE minted + 1
    /\ tstate' = [tstate EXCEPT ![t] = "open"]
    /\ UNCHANGED <<pending, dispatches, calls, users, conversations, now,
                   outside, cache>>

\* Mutant of Disconnect: leave_room is forgotten.
Disconnect_StaysInRoom(sessions, joined, t) ==
    IF t \in DOMAIN sessions
    THEN [active_sessions |-> [x \in DOMAIN sessions \ {t} |-> sessions[x]],
          rooms |-> joined, raised |-> FALSE]
    ELSE [active_sessions |-> sessions, rooms |-> joined, raised |-> FALSE]

\* Mutant of Disconnect: the body runs without the test of line 178, and
\* the lookup of an absent key raises KeyError.
Disconnect_Unguarded(sessions, joined, t) ==
    IF t \in DOMAIN sessions
    THEN [active_sessions |-> [x \in DOMAIN sessions \ {t} |-> sessions[x]],
          rooms |-> [joined EXCEPT ![t] = @ \ {sessions[t]}],
          raised |-> FALSE]
    ELSE [active_sessions |-> sessions, rooms |-> joined, raised |-> TRUE]

\* Mutant of Disconnect: the session is ended as a whole, every transport
\* registered with the session id of t is removed with it.
Disconnect_WholeSession(sessions, joined, t) ==
    IF t \in DOMAIN sessions
    THEN [active_sessions |->
              [x \in {y \in DOMAIN sessions : sessions[y] # sessions[t]}
                  |-> sessions[x]],
          rooms |-> [x \in DOMAIN joined |->
                        IF x \in DOMAIN sessions /\ sessions[x] = sessions[t]
                        THEN joined[x] \ {sessions[t]} ELSE joined[x]],
          raised |-> FALSE]
    ELSE [active_sessions |-> sessions, rooms |-> joined, raised |-> FALSE]

\* app.py:178-181: the registry and the room memberships after the
\* disconnect of t, and whether the handler raised.
Disconnect(sessions, joined, t) ==
    IF t \in DOMAIN sessions
    THEN [active_sessions |-> [x \in DOMAIN sessions \ {t} |-> sessions[x]],
          rooms |-> [joined EXCEPT ![t] = @ \ {sessions[t]}],
          raised |-> FALSE]
    ELSE [active_sessions |-> sessions, rooms |-> joined, raised |-> FALSE]

\* app.py:175-181, the 'disconnect' event of transport t.  A transport
\* that is closed can get the event again ("reclosed": it did); the guard
\* of line 178 then skips the body.  "failed": the handler raised.
handle_disconnect(t) ==
    /\ tstate[t] \in {"open", "closed"}
    /\ LET after == Disconnect(active_sessions, rooms, t)
       IN  /\ rooms' = after.rooms
           /\ active_sessions' = after.active_sessions
           /\ tstate' = [tstate EXCEPT ![t] =
                  IF after.raised THEN "failed"
                  ELSE IF @ = "open" THEN "closed" ELSE "reclosed"]
    /\ UNCHANGED <<pending, minted, direct, dispatches, calls, users,
                   conversations, now, outside, cache>>

\* ----------------------------------------------------- handle_chat_message
\* Mutant of SessionNotFoundEmits: the typing indicator is emitted before
\* the registry is consulted.
SessionNotFoundEmits_Typing(t) ==
    << Event("assistant_typing", "", "", NoResponse, {t}),
       Event("error", "", "", NoResponse, {t}) >>

\* app.py:188-190: what handle_chat_message emits when active_sessions
\* holds no entry for the transport: emit('error', {'message': 'Session
\* not found'}) without a room, which goes to the sender alone.
SessionNotFoundEmits(t) == << Event("error", "", "", NoResponse, {t}) >>

\* app.py:187-190: a chat message on a transport the registry does not
\* hold (its disconnect was handled first) is answered to that transport.
chat_message_no_session(t) ==
    /\ tstate[t] \in {"open", "closed", "reclosed"}
    /\ t \notin DOMAIN active_sessions
    /\ pending > 0
    /\ pending' = pending - 1
    /\ direct' = [direct EXCEPT ![t] = @ \o SessionNotFoundEmits(t)]
    /\ UNCHANGED <<tstate, active_sessions, rooms, minted, dispatches, calls,
                   users, conversations, now, outside, cache>>

\* app.py:187-226 and process_assistant_message up to the point where the
\* thread either awaits the remote model call or holds its response.
handle_chat_message(t, assistant_type, message, portfolio_id) ==
    /\ t \in DOMAIN active_sessions
    /\ pending > 0
    /\ pending' = pending - 1
    /\ LET d == EnterDispatch(NewDispatch(active_sessions[t], assistant_type,
                       message, portfolio_id))
       IN  /\ dispatches' = Append(dispatches, d)
           /\ calls' = IF d.handler = "none" THEN calls
                       ELSE [calls EXCEPT ![d.handler] = @ + 1]
    /\ UNCHANGED <<regVars, users, conversations, now, cache>>

\* ------------------------------------------ the dispatch after its entry
\* analyze_portfolio lines 107-136 / optimize_portfolio lines 116-145: the
\* remote model call returns, or raises and is caught by the handler, which
\* then returns the 'failed' structure.
HandlerResult(assistant_type, remote_raises) ==
    IF remote_raises THEN FailedResponse ELSE SuccessResponse(assistant_type)

\* Mutant of CacheAfter: the cache entry is written in a finally clause,
\* whatever the call's outcome.
CacheAfter_Always(store, key, result) ==
    [k \in DOMAIN store \cup {key} |-> IF k = key THEN result ELSE store[k]]

\* analyze_portfolio lines 121-126 / optimize_portfolio lines 131-136: the
\* handler's cache after the call.  The write follows the remote call
\* inside the try block, so a call that raised skips it.  An entry also
\* holds the time of the write, which nothing reads.
CacheAfter(store, key, result) ==
    IF result.status = "success"
    THEN [k \in DOMAIN store \cup {key} |-> IF k = key THEN result ELSE store[k]]
    ELSE store

\* The remote call ends, the handler returns, and app.py:266-271 emits.
handler_returns(i, remote_raises) ==
    /\ i \in DOMAIN dispatches
    /\ dispatches[i].pc = "await"
    /\ LET d == dispatches[i]
           result == HandlerResult(d.assistant, remote_raises)
           key == CacheKey(d.handler, MakePortfolioData(d.portfolio_id)[1],
                           d.constraints)
       IN  /\ dispatches' = [dispatches EXCEPT ![i] = Respond(d, result)]
           /\ cache' = [cache EXCEPT ![d.handler] = CacheAfter(@, key, result)]
    /\ UNCHANGED <<regVars, pending, calls, users, conversations, now>>

\* ------------------------------------------------------- save_conversation
UserContent(message) == [text |-> message, payload |-> NoResponse]
AssistantContent(response) == [text |-> "", payload |-> response]

\* app.py:290-293: the primary keys of the rows the query matches.  A user
\* row's id stands in one-to-one relation with its unique user_id, the
\* session id.
Matching(session_id, assistant_type) ==
    {c \in 1..Len(conversations) :
        /\ conversations[c].user_id = session_id
        /\ conversations[c].assistant_type = assistant_type}

\* Mutant of LocalMessages: the exchange is appended to a new empty list
\* instead of the stored one.
LocalMessages_Fresh(conv_messages) == [list |-> << >>, aliased |-> FALSE]

\* app.py:304, `conversation.messages or []`: a non-empty list is returned
\* itself, so the local name and the attribute are one object (aliased);
\* an empty or NULL one is replaced by a new list.
LocalMessages(conv_messages) ==
    [list |-> conv_messages, aliased |-> conv_messages # << >>]

\* Mutant of AppendExchange: only the assistant entry is appended.
AppendExchange_AssistantOnly(list, i, message, response, t1, t2) ==
    list \o << [role |-> "assistant", content |-> AssistantContent(response),
                timestamp |-> t2, by |-> i] >>

\* app.py:305-314: the two entries, stamped by two successive utcnow()
\* calls; `by` names the dispatch that built them.
AppendExchange(list, i, message, response, t1, t2) ==
    list \o << [role |-> "user", content |-> UserContent(message),
                timestamp |-> t1, by |-> i],
               [role |-> "assistant", content |-> AssistantContent(response),
                timestamp |-> t2, by |-> i] >>

\* save_conversation returns (app.py:318, "committed") or its except clause
\* has run (app.py:320-321) after a call before the commit raised
\* ("failed") or after the commit raised ("commit_failed"); its locals are
\* gone.
SaveEnds(d, outcome) ==
    [d EXCEPT !.events = IF outcome = "committed" THEN @
                         ELSE @ \o SaveExceptEmits(d.assistant, d.sid),
              !.saved = outcome,
              !.conv = 0, !.msgs = << >>, !.aliased = FALSE, !.lastAt = 0,
              !.pc = "done"]

\* app.py:286-317: the user row is found or created and committed, the
\* conversation is found (any one of the matching rows: the query has no
\* ORDER BY) or created as a pending object, and the messages are built.
\* Any of the database calls may raise; line 320 then ends the call.
save_begin(i, fails, c, t1, t2, t3) ==
    /\ i \in DOMAIN dispatches
    /\ dispatches[i].pc = "save"
    /\ LET d == dispatches[i]
           found == Matching(d.sid, d.assistant)
       IN  IF fails
           THEN /\ c = 0 /\ t1 = now /\ t2 = now /\ t3 = now
                /\ dispatches' = [dispatches EXCEPT ![i] = SaveEnds(d, "failed")]
                /\ UNCHANGED <<users, now>>
           ELSE /\ IF found = {} THEN c = 0 ELSE c \in found
                /\ now <= t1 /\ t1 <= t2 /\ t2 <= t3
                /\ LET local == LocalMessages(
                           IF c = 0 THEN << >> ELSE conversations[c].messages)
                   IN  dispatches' = [dispatches EXCEPT ![i] =
                           [@ EXCEPT !.conv = c,
                                     !.msgs = AppendExchange(local.list, i,
                                                  d.message, d.response, t1, t2),
                                     !.aliased = local.aliased,
                                     !.lastAt = t3,
                                     !.pc = "commit"]]
                /\ users' = users \cup {d.sid}
                /\ now' = t3
    /\ UNCHANGED <<saveFrame, conversations>>

\* models/portfolio.py:169 declares messages as a plain Column(JSON), with
\* no mutation tracking.  At flush the unit of work writes a column of a
\* loaded row only when its current value differs from the value the
\* attribute held when it was assigned.  app.py:316 assigns the attribute
\* the very list it already holds, extended in place, so old and new value
\* are the same object and compare equal: the UPDATE leaves messages out.
\* A list that is a new object is written.
MessagesColumnWritten(aliased) == ~aliased

\* app.py:316-318, a commit that succeeds: the pending Conversation is
\* INSERTed with its messages, a loaded one is UPDATEd.
CommitRows(rows, d) ==
    IF d.conv = 0
    THEN Append(rows, [user_id |-> d.sid, assistant_type |-> d.assistant,
                       messages |-> d.msgs, last_message_at |-> d.lastAt])
    ELSE [rows EXCEPT ![d.conv] =
             [@ EXCEPT !.last_message_at = d.lastAt,
                       !.messages = IF MessagesColumnWritten(d.aliased)
                                    THEN d.msgs ELSE @]]

\* Mutant of CommitFails: the user entry of a new conversation is written
\* although the commit raised.
CommitFails_Partial(rows, d) ==
    IF d.conv = 0
    THEN Append(rows, [user_id |-> d.sid, assistant_type |-> d.assistant,
                       messages |-> SubSeq(d.msgs, 1, Len(d.msgs) - 1),
                       last_message_at |-> d.lastAt])
    ELSE rows

\* app.py:318-321, a commit that raises: the transaction is not committed
\* and the session is dropped, so no row changes.
CommitFails(rows, d) == rows

save_commit(i, ok) ==
    /\ i \in DOMAIN dispatches
    /\ dispatches[i].pc = "commit"
    /\ LET d == dispatches[i]
       IN  IF ok
           THEN /\ conversations' = CommitRows(conversations, d)
                /\ dispatches' = [dispatches EXCEPT ![i] = SaveEnds(d, "committed")]
           ELSE /\ conversations' = CommitFails(conversations, d)
                /\ dispatches' = [dispatches EXCEPT ![i] = SaveEnds(d,
                                                         "commit_failed")]
    /\ UNCHANGED <<saveFrame, users, now>>

\* ------------------------------------------------ get_conversation_history
\* session.get('session_id') of the clients that request their history.
HistoryCallers == {"s1", "s2"}

\* Mutant of RecentMessages: the slice [:10], the oldest ten.
RecentMessages_Oldest(messages) ==
    IF messages = << >> THEN << >>
    ELSE SubSeq(messages, 1, IF Len(messages) > 10 THEN 10 ELSE Len(messages))

\* app.py:362, `conv.messages[-10:] if conv.messages else []`: a negative
\* slice start beyond the front of the list is clamped to the front.
RecentMessages(messages) ==
    IF messages = << >> THEN << >>
    ELSE LET n == Len(messages)
             first == IF n - 10 < 0 THEN 1 ELSE n - 10 + 1
         IN  SubSeq(messages, first, n)

\* app.py:358-364: one entry per conversation row, in the order the query
\* returned the rows.
HistoryOf(rows) ==
    [k \in 1..Len(rows) |->
        [assistant |-> rows[k].assistant_type,
         messages |-> RecentMessages(rows[k].messages),
         last_message |-> rows[k].last_message_at]]

\* app.py:348-366, GET /api/conversation/history of the client whose
\* session carries session_id: its user row is found or created, then its
\* conversation rows are read.
get_conversation_history(session_id) ==
    /\ boot = "serving"
    /\ users' = users \cup {session_id}
    /\ history' = HistoryOf(SelectSeq(conversations,
                                LAMBDA row : row.user_id = session_id))
    /\ UNCHANGED <<tstate, pending, active_sessions, rooms, minted, direct,
                   dispatches, calls, conversations, now, env, boot,
                   assistants, cache, market, rebalancing>>

\* The k-th entry of a stored conversation: exchanges of a user entry and
\* an assistant entry, `by` numbering the exchange.
StoredEntry(k) ==
    [role |-> IF k % 2 = 1 THEN "user" ELSE "assistant",
     content |-> IF k % 2 = 1 THEN UserContent("")
                 ELSE AssistantContent(NoPortfolioResponse("analyst")),
     timestamp |-> 0, by |-> (k + 1) \div 2]

StoredRow(user_id, assistant_type, n) ==
    [user_id |-> user_id, assistant_type |-> assistant_type,
     messages |-> [k \in 1..n |-> StoredEntry(k)], last_message_at |-> 0]

\* A server whose store holds, for user "s1", an analyst and an optimizer
\* conversation of any length up to MaxStored, and a conversation of
\* another user.
InitHistory ==
    /\ env = [n \in {"CLAUDE_API_KEY_ANALYST", "CLAUDE_API_KEY_OPTIMIZER"}
                 |-> <<"k">>]
    /\ boot = "serving"
    /\ assistants = [h \in {"analyst", "optimizer"} |-> "k"]
    /\ NoSessions({}, 0)
    /\ NoRebalancing
    /\ users = {"s1", "s2"}
    /\ \E a \in 0..MaxStored, o \in 0..MaxStored :
           conversations = << StoredRow("s1", "analyst", a),
                              StoredRow("s2", "analyst", 2),
                              StoredRow("s1", "optimizer", o) >>

NextHistory == \E session_id \in HistoryCallers :
                   get_conversation_history(session_id)

SpecHistory == InitHistory /\ [][NextHistory]_vars

\* --------------------------------------------------------------- scenarios
\* Two clients, one chat message between them.
InitSessions == Start({"t1", "t2"}, 1)

\* ------------------------------------------------- module initialisation
\* `not KEY` of the constructors: None and the empty string are falsy.
Configured(value) == value # << >> /\ value[1] # ""

\* Mutant of Construct: the constructor does not test its credential and
\* builds the client with whatever the environment gave.
Construct_Unchecked(h, environment) ==
    [raised |-> FALSE,
     api_key |-> IF environment[CredentialOf[h]] = << >> THEN ""
                 ELSE environment[CredentialOf[h]][1]]

\* PortfolioAnalystAssistant.__init__ / PortfolioOptimizerAssistant.__init__,
\* lines 30-35: ValueError without the assistant's own credential, else a
\* client holding it.
Construct(h, environment) ==
    IF ~Configured(environment[CredentialOf[h]])
    THEN [raised |-> TRUE, api_key |-> ""]
    ELSE [raised |-> FALSE, api_key |-> environment[CredentialOf[h]][1]]

\* app.py:41-42: the analyst is constructed, then the optimizer.  An
\* exception of a constructor ends the import, and with it the process.
init_assistant(h) ==
    /\ boot = h
    /\ LET made == Construct(h, env)
       IN  IF made.raised
           THEN /\ boot' = "failed"
                /\ UNCHANGED assistants
           ELSE /\ boot' = IF h = "analyst" THEN "optimizer" ELSE "serving"
                /\ assistants' = [x \in DOMAIN assistants \cup {h} |->
                                     IF x = h THEN made.api_key
                                     ELSE assistants[x]]
    /\ UNCHANGED <<tstate, pending, active_sessions, rooms, minted, direct,
                   dispatches, calls, users, conversations, now, env, history,
                   cache, market, rebalancing>>

\* A process that starts to import app.py, in any environment; once it
\* serves, one client sends one chat message.
InitStartup ==
    /\ env \in [{"CLAUDE_API_KEY_ANALYST", "CLAUDE_API_KEY_OPTIMIZER"}
                    -> Credentials]
    /\ boot = "analyst"
    /\ assistants = << >>
    /\ Idle({"t1"}, 1)

\* --------------------------------------------------------------- scenarios
\* The end-to-end scenario: one client, one chat message, empty tables.
InitEndToEnd == Start({"t1"}, 1)

\* ----------------------------------------------------------- specification
Next ==
    \/ \E t \in Transports, cookie \in Cookies : handle_connect(t, cookie)
    \/ \E t \in Transports : handle_disconnect(t)
    \/ \E t \in Transports : chat_message_no_session(t)
    \/ \E t \in Transports, a \in AssistantTags, m \in Messages,
          p \in PortfolioIds : handle_chat_message(t, a, m, p)
    \/ \E i \in 1..MaxDispatch, r \in BOOLEAN : handler_returns(i, r)
    \/ \E i \in 1..MaxDispatch, fails \in BOOLEAN, c \in 0..MaxDispatch,
          t1 \in 0..MaxClock, t2 \in 0..MaxClock, t3 \in 0..MaxClock :
              save_begin(i, fails, c, t1, t2, t3)
    \/ \E i \in 1..MaxDispatch, ok \in BOOLEAN : save_commit(i, ok)

Spec == Init /\ [][Next]_vars

SpecSessions == InitSessions /\ [][Next]_vars

SpecEndToEnd == InitEndToEnd /\ [][Next]_vars

NextStartup ==
    \/ \E h \in {"analyst", "optimizer"} : init_assistant(h)
    \/ Next

SpecStartup == InitStartup /\ [][NextStartup]_vars

\* The market data service of a server that has no session.
InitMarket == Start({}, 0)

SpecMarket == InitMarket /\ [][NextMarket]_vars

\* One call of get_rebalancing_trades, on every pair of allocations over
\* AssetClasses and every value of Values.
InitTrades ==
    /\ env = [n \in {"CLAUDE_API_KEY_ANALYST", "CLAUDE_API_KEY_OPTIMIZER"}
                 |-> <<"k">>]
    /\ boot = "serving"
    /\ assistants = [h \in {"analyst", "optimizer"} |-> "k"]
    /\ NoSessions({}, 0)
    /\ users = {}
    /\ conversations = << >>
    /\ current_allocation \in Allocations
    /\ target_allocation \in Allocations
    /\ portfolio_value \in Values
    /\ trades = << >>

SpecTrades == InitTrades /\ [][NextTrades]_vars

\* Every handler thread is scheduled, and the remote model call it waits
\* for ends (the client library bounds the call with its own timeout), by
\* returning or by raising.
SpecFair ==
    /\ Init
    /\ [][Next]_vars
    /\ WF_vars(\E i \in 1..MaxDispatch, r \in BOOLEAN : handler_returns(i, r))

\* ------------------------------------------------------------ observations
Known == {"analyst", "optimizer"}

\* The kinds of the events a dispatch has emitted, in order.
Kinds(d) == [k \in 1..Len(d.events) |-> d.events[k].kind]

\* The positions of the conversation store that hold an entry built by
\* dispatch i.
StoredBy(i) ==
    {<<c, k>> \in (1..Len(conversations)) \X (1..2 * MaxDispatch) :
        /\ k <= Len(conversations[c].messages)
        /\ conversations[c].messages[k].by = i}

\* The number of messages stored for (session_id, assistant_type), over
\* every row of that pair.
RECURSIVE StoredCountUpTo(_, _, _)
StoredCountUpTo(n, session_id, assistant_type) ==
    IF n = 0 THEN 0
    ELSE StoredCountUpTo(n - 1, session_id, assistant_type)
         + (IF /\ conversations[n].user_id = session_id
               /\ conversations[n].assistant_type = assistant_type
            THEN Len(conversations[n].messages) ELSE 0)

StoredCount(session_id, assistant_type) ==
    StoredCountUpTo(Len(conversations), session_id, assistant_type)

IsPrefix(s, t) == Len(s) <= Len(t) /\ SubSeq(t, 1, Len(s)) = s

\* Each handler's invocation counter counts the dispatches that invoked it.
CallsCounted ==
    \A h \in Known :
        calls[h] = Cardinality({i \in DOMAIN dispatches : dispatches[i].handler = h})

\* ------------------------------------------------------------------ claims
\* C1: every dispatch emits its assistant_typing event, to the room of its
\* session and tagged with its assistant, before it invokes a handler and
\* before its assistant_response or error event; no response or error event
\* is emitted without the typing event before it.
C1_TypingPrecedes ==
    \A i \in DOMAIN dispatches :
        LET d == dispatches[i]
        IN  /\ Len(d.events) >= 1
            /\ d.events[1].kind = "assistant_typing"
            /\ d.events[1].room = d.sid
            /\ d.events[1].assistant = d.assistant
            /\ d.handler # "none" => d.invokedAt >= 1
            /\ \A k \in 1..Len(d.events) :
                   d.events[k].kind \in {"assistant_response", "error"} => k > 1

\* A dispatch invoked a handler and has delivered its response.
C1_Witness ==
    \E i \in DOMAIN dispatches :
        /\ dispatches[i].handler # "none"
        /\ Kinds(dispatches[i]) = <<"assistant_typing", "assistant_response">>

\* C2: a dispatch for analyst or optimizer whose chat message names no
\* portfolio, or one the store does not hold, invokes no handler and
\* responds with the fixed no_portfolio payload of its assistant, whatever
\* the message text.
C2_NoPortfolioShortCircuit ==
    /\ CallsCounted
    /\ \A i \in DOMAIN dispatches :
           LET d == dispatches[i]
           IN  (d.assistant \in Known /\ MakePortfolioData(d.portfolio_id) = << >>)
               => /\ d.handler = "none"
                  /\ d.invokedAt = -1
                  /\ ~d.raised
                  /\ d.response = NoPortfolioResponse(d.assistant)
                  /\ d.response.status = "no_portfolio"
                  /\ Len(d.events) = 2
                  /\ d.events[2].kind = "assistant_response"
                  /\ d.events[2].response = NoPortfolioResponse(d.assistant)

\* Two dispatches of one assistant without a portfolio, one naming an id the
\* store does not hold and one naming none, with different message texts.
C2_Witness ==
    \E i, j \in DOMAIN dispatches :
        /\ dispatches[i].assistant \in Known
        /\ dispatches[j].assistant = dispatches[i].assistant
        /\ dispatches[i].portfolio_id = <<"px">>
        /\ dispatches[j].portfolio_id = << >>
        /\ dispatches[i].message # dispatches[j].message
        /\ dispatches[i].response = dispatches[j].response

\* C3: a dispatch with a tag other than analyst and optimizer invokes no
\* handler, with or without a portfolio, and its response is the error
\* payload.
C3_UnknownTagNoHandler ==
    /\ \A h \in Known :
           calls[h] = Cardinality({i \in DOMAIN dispatches :
                                     /\ dispatches[i].assistant = h
                                     /\ dispatches[i].handler = h})
    /\ \A i \in DOMAIN dispatches :
           LET d == dispatches[i]
           IN  d.assistant \notin Known
               => /\ d.handler = "none"
                  /\ d.invokedAt = -1
                  /\ ~d.raised
                  /\ d.response = UnknownResponse
                  /\ d.response.field = "error"
                  /\ \E k \in 1..Len(d.events) : d.events[k].response = UnknownResponse

\* An unknown tag was dispatched with a portfolio the store holds.
C3_Witness ==
    \E i \in DOMAIN dispatches :
        /\ dispatches[i].assistant \notin Known
        /\ MakePortfolioData(dispatches[i].portfolio_id) # << >>
        /\ dispatches[i].pc = "done"

\* C4: a dispatch whose handler raised emits an error event and no
\* assistant_response, never reaches save_conversation, and leaves no entry
\* in any conversation; while a client is registered and has a message to
\* send, the next chat message is still accepted.
C4_HandlerRaiseIsolated ==
    /\ \A i \in DOMAIN dispatches :
           LET d == dispatches[i]
           IN  d.raised
               => /\ Kinds(d) = <<"assistant_typing", "error">>
                  /\ d.events[2].room = d.sid
                  /\ d.pc = "done"
                  /\ d.saved = "none"
                  /\ StoredBy(i) = {}
    /\ (/\ \E i \in DOMAIN dispatches : dispatches[i].raised
        /\ pending > 0
        /\ DOMAIN active_sessions # {})
       => ENABLED (\E t \in Transports, a \in AssistantTags, m \in Messages,
                      p \in PortfolioIds : handle_chat_message(t, a, m, p))

\* A handler raised, and a dispatch that arrived after it was served and
\* its exchange committed.
C4_Witness ==
    \E i, j \in DOMAIN dispatches :
        /\ i < j
        /\ dispatches[i].raised
        /\ dispatches[j].saved = "committed"
        /\ StoredBy(j) # {}

\* C5: a dispatch whose save_conversation call failed, before or at the
\* commit, has emitted exactly its typing event and one assistant_response,
\* and no error event.
C5_SaveFailureSilent ==
    \A i \in DOMAIN dispatches :
        LET d == dispatches[i]
        IN  d.saved \in {"failed", "commit_failed"}
            => /\ Kinds(d) = <<"assistant_typing", "assistant_response">>
               /\ d.events[2].response = d.response
               /\ d.pc = "done"

\* The commit of a handler's successful response failed.
C5_Witness ==
    \E i \in DOMAIN dispatches :
        /\ dispatches[i].saved = "commit_failed"
        /\ dispatches[i].response.status = "success"

\* C6 (as claimed): a dispatch whose handler returned the 'failed'
\* structure emits it as an assistant_response, emits no error event, and,
\* once its save_conversation call has committed, the store holds its user
\* entry followed by its assistant entry carrying that structure.
C6_FailedPayloadPersisted ==
    \A i \in DOMAIN dispatches :
        LET d == dispatches[i]
        IN  (d.response = FailedResponse /\ d.saved = "committed")
            => /\ Kinds(d) = <<"assistant_typing", "assistant_response">>
               /\ d.events[2].response = FailedResponse
               /\ \E c \in Matching(d.sid, d.assistant) :
                      \E k \in 1..(Len(conversations[c].messages) - 1) :
                          LET u == conversations[c].messages[k]
                              a == conversations[c].messages[k + 1]
                          IN  /\ u.by = i /\ u.role = "user"
                              /\ u.content = UserContent(d.message)
                              /\ a.by = i /\ a.role = "assistant"
                              /\ a.content = AssistantContent(FailedResponse)

\* C7 (as claimed): every save_conversation call that commits raises the
\* number of messages stored for its (user, assistant type) by exactly 2,
\* and the two new entries are the last two of the conversation, a user
\* entry then an assistant entry with non-decreasing timestamps.
C7_CommitAddsTwo ==
    [][\A i \in DOMAIN dispatches :
          (dispatches[i].pc = "commit" /\ dispatches'[i].saved = "committed")
          => LET d == dispatches[i]
             IN  /\ StoredCount(d.sid, d.assistant)' =
                        StoredCount(d.sid, d.assistant) + 2
                 /\ \E c \in 1..Len(conversations') :
                        LET ms == conversations'[c].messages
                            n == Len(ms)
                        IN  /\ conversations'[c].user_id = d.sid
                            /\ conversations'[c].assistant_type = d.assistant
                            /\ n >= 2
                            /\ ms[n - 1].by = i /\ ms[n - 1].role = "user"
                            /\ ms[n].by = i /\ ms[n].role = "assistant"
                            /\ ms[n - 1].timestamp <= ms[n].timestamp]_vars

\* C8 (as claimed): the conversations table never holds two rows for one
\* (user, assistant type) pair.
C8_OneConversationPerPair ==
    \A c1, c2 \in 1..Len(conversations) :
        (/\ conversations[c1].user_id = conversations[c2].user_id
         /\ conversations[c1].assistant_type = conversations[c2].assistant_type)
        => c1 = c2

\* C9: no step removes a conversation row or changes its key, the messages
\* a row holds before a step are a prefix of those it holds after it, and
\* timestamps never decrease along a row's messages.
C9_AppendOnly ==
    [][/\ Len(conversations) <= Len(conversations')
       /\ \A c \in 1..Len(conversations) :
              /\ conversations'[c].user_id = conversations[c].user_id
              /\ conversations'[c].assistant_type = conversations[c].assistant_type
              /\ IsPrefix(conversations[c].messages, conversations'[c].messages)
       /\ \A c \in 1..Len(conversations') :
              \A k \in 1..(Len(conversations'[c].messages) - 1) :
                  conversations'[c].messages[k].timestamp
                      <= conversations'[c].messages[k + 1].timestamp]_vars

\* Two save_conversation calls have committed on the same row, and the
\* clock advanced between the two entries that row holds.
C9_Witness ==
    /\ Len(conversations) = 1
    /\ \A i \in {1, 2} : i \in DOMAIN dispatches /\ dispatches[i].saved = "committed"
    /\ conversations[1].messages[1].timestamp < conversations[1].messages[2].timestamp

\* C10: a save_conversation call that failed, before or at its commit, has
\* left none of its entries in the store, a call that has not committed yet
\* has stored none, and every stored user entry is directly followed by the
\* assistant entry of the same call.
C10_AllOrNothing ==
    /\ \A i \in DOMAIN dispatches :
           dispatches[i].saved # "committed" => StoredBy(i) = {}
    /\ \A c \in 1..Len(conversations) :
           LET ms == conversations[c].messages
           IN  /\ Len(ms) >= 1 => ms[Len(ms)].role = "assistant"
               /\ \A k \in 1..Len(ms) :
                      ms[k].role = "user"
                      => /\ k < Len(ms)
                         /\ ms[k + 1].role = "assistant"
                         /\ ms[k + 1].by = ms[k].by

\* The commit of one call failed while another call's exchange is stored.
C10_Witness ==
    \E i, j \in DOMAIN dispatches :
        /\ dispatches[i].saved = "commit_failed"
        /\ dispatches[j].saved = "committed"
        /\ StoredBy(j) # {}

\* C11 (as claimed): every save_conversation call that commits leaves the
\* row it wrote with last_message_at equal to the timestamp of the
\* assistant entry that call appended.
C11_LastMessageAtIsAssistantStamp ==
    [][\A i \in DOMAIN dispatches :
          (dispatches[i].pc = "commit" /\ dispatches'[i].saved = "committed")
          => LET d == dispatches[i]
                 row == IF d.conv = 0 THEN Len(conversations') ELSE d.conv
             IN  conversations'[row].last_message_at
                     = d.msgs[Len(d.msgs)].timestamp]_vars

\* C12: a history response holds one entry per conversation row of the
\* caller, each with at most 10 messages: all of the row's messages in
\* stored order when it holds 10 or fewer, else exactly its last 10,
\* oldest first.
C12_HistoryWindow ==
    [][\A session_id \in HistoryCallers :
          get_conversation_history(session_id)
          => LET mine == {c \in 1..Len(conversations) :
                             conversations[c].user_id = session_id}
             IN  /\ Len(history') = Cardinality(mine)
                 /\ \A c \in mine :
                        \E k \in 1..Len(history') :
                            LET ms == conversations[c].messages
                                h == history'[k].messages
                            IN  /\ history'[k].assistant
                                       = conversations[c].assistant_type
                                /\ Len(h) <= 10
                                /\ Len(ms) <= 10 => h = ms
                                /\ Len(ms) > 10
                                   => /\ Len(h) = 10
                                      /\ \A j \in 1..10 :
                                             h[j] = ms[Len(ms) - 10 + j]]_vars

\* A response with a conversation cut to its last 10 messages next to one
\* returned whole.
C12_Witness ==
    /\ Len(history) = 2
    /\ Len(conversations[1].messages) > 10
    /\ Len(history[1].messages) = 10
    /\ history[1].messages[10] = conversations[1].messages[Len(conversations[1].messages)]
    /\ Len(conversations[3].messages) \in 1..9
    /\ history[2].messages = conversations[3].messages

\* The session id a transport connected with, as its connected event
\* reported it.
ConnectedAs(t) == direct[t][1].room

\* C13: a transport that connected and then disconnected has no entry in
\* active_sessions and is not in the room of the session it connected
\* with, while every transport that is still connected keeps its entry and
\* its room.
C13_ConnectDisconnectClears ==
    \A t \in Transports :
        /\ tstate[t] \in {"closed", "reclosed"}
           => /\ t \notin DOMAIN active_sessions
              /\ ConnectedAs(t) \notin rooms[t]
              /\ t \notin RoomMembers(ConnectedAs(t))
        /\ tstate[t] = "open"
           => /\ t \in DOMAIN active_sessions
              /\ active_sessions[t] = ConnectedAs(t)
              /\ t \in RoomMembers(ConnectedAs(t))

\* One of two transports of the same session has disconnected, the other
\* is still connected.
C13_Witness ==
    \E t, u \in Transports :
        /\ tstate[t] = "closed"
        /\ tstate[u] = "open"
        /\ ConnectedAs(t) = active_sessions[u]

\* C14: a disconnect event for a transport that active_sessions does not
\* hold raises nothing and changes neither active_sessions nor any room
\* membership.
C14_DisconnectIdempotent ==
    [][\A t \in Transports :
          (t \notin DOMAIN active_sessions /\ tstate'[t] # tstate[t]
               /\ tstate[t] # "new")
          => /\ tstate'[t] = "reclosed"
             /\ active_sessions' = active_sessions
             /\ rooms' = rooms
             /\ direct' = direct]_vars

\* A transport has been disconnected twice while another one is connected.
C14_Witness ==
    \E t, u \in Transports :
        /\ tstate[t] = "reclosed"
        /\ u \in DOMAIN active_sessions

\* The session ids in use: those of the registry, of the rooms, of the
\* users table, and those the clients carry.
IdsInUse ==
    {active_sessions[x] : x \in DOMAIN active_sessions}
        \cup UNION {rooms[x] : x \in Transports}
        \cup users
        \cup {cookie[1] : cookie \in Cookies \ {<< >>}}

\* C15: a connect registers the transport under the caller's session id
\* when it carries one and else under an id that nothing uses yet, joins
\* the room of that id and no other, and reports that id in the connected
\* event sent to the transport; no other transport's entry or room changes.
C15_ConnectRegisters ==
    [][\A t \in Transports, cookie \in Cookies :
          handle_connect(t, cookie)
          => /\ t \in DOMAIN active_sessions'
             /\ LET id == active_sessions'[t]
                    ev == direct'[t][Len(direct'[t])]
                IN  /\ cookie # << >> => id = cookie[1]
                    /\ cookie = << >> => id \notin IdsInUse
                    /\ rooms'[t] = {id}
                    /\ Len(direct'[t]) = Len(direct[t]) + 1
                    /\ ev.kind = "connected" /\ ev.room = id /\ ev.to = {t}
             /\ \A u \in Transports \ {t} :
                    /\ rooms'[u] = rooms[u]
                    /\ direct'[u] = direct[u]
                    /\ u \in DOMAIN active_sessions
                       => /\ u \in DOMAIN active_sessions'
                          /\ active_sessions'[u] = active_sessions[u]]_vars

\* Two transports are connected, one under the id it carried and one under
\* a minted id.
C15_Witness ==
    \E t, u \in DOMAIN active_sessions :
        /\ active_sessions[t] = "s1"
        /\ active_sessions[u] = UuidPool[1]
        /\ minted = 1

\* C18: every event of a dispatch names the room of the dispatch's session
\* id, which is the id active_sessions held for the originating transport,
\* and is delivered only to transports that connected with that id.
C18_OutputStaysInRoom ==
    [][/\ \A t \in Transports, a \in AssistantTags, m \in Messages,
            p \in PortfolioIds :
              handle_chat_message(t, a, m, p)
              => dispatches'[Len(dispatches')].sid = active_sessions[t]
       /\ \A i \in DOMAIN dispatches' :
              \A k \in 1..Len(dispatches'[i].events) :
                  LET e == dispatches'[i].events[k]
                  IN  /\ e.room = dispatches'[i].sid
                      /\ \A t \in e.to :
                             direct'[t][1].room = dispatches'[i].sid]_vars

\* Two transports are connected under different session ids and a response
\* has been delivered to one of them only.
C18_Witness ==
    \E t, u \in Transports :
        /\ tstate[t] = "open" /\ tstate[u] = "open"
        /\ active_sessions[t] # active_sessions[u]
        /\ \E i \in DOMAIN dispatches :
               /\ dispatches[i].sid = active_sessions[t]
               /\ \E k \in 1..Len(dispatches[i].events) :
                      /\ dispatches[i].events[k].kind = "assistant_response"
                      /\ dispatches[i].events[k].to = {t}

\* The events of dispatch i that end it for the client: its responses and
\* errors.
Outcomes(i) ==
    {k \in 1..Len(dispatches[i].events) :
        dispatches[i].events[k].kind \in {"assistant_response", "error"}}

\* C16: with every handler thread scheduled, each dispatch, whatever other
\* dispatch of the same session runs at the same time, comes to have
\* exactly one response or error event and never has more; each of its
\* events is tagged with its own assistant and session, and no step drops
\* or replaces an event a dispatch has emitted.
C16_EachDispatchAnswersOnce ==
    /\ [][/\ \A i \in DOMAIN dispatches :
                /\ i \in DOMAIN dispatches'
                /\ IsPrefix(dispatches[i].events, dispatches'[i].events)
          /\ \A i \in DOMAIN dispatches' :
                /\ Cardinality(Outcomes(i)') <= 1
                /\ \A k \in 1..Len(dispatches'[i].events) :
                       /\ dispatches'[i].events[k].assistant
                              = dispatches'[i].assistant
                       /\ dispatches'[i].events[k].room = dispatches'[i].sid]_vars
    /\ \A i \in 1..MaxDispatch :
           (i \in DOMAIN dispatches)
               ~> (i \in DOMAIN dispatches /\ Cardinality(Outcomes(i)) = 1)

\* Two dispatches of one session for different assistants are in flight
\* together: the later one has its response while the earlier one is still
\* in its remote call.
C16_Witness ==
    /\ Len(dispatches) = 2
    /\ dispatches[1].sid = dispatches[2].sid
    /\ {dispatches[1].assistant, dispatches[2].assistant} = Known
    /\ dispatches[1].pc = "await"
    /\ dispatches[2].handler # "none"
    /\ Cardinality(Outcomes(2)) = 1

\* Dispatch i invoked a handler while its room had a member, and the room
\* had none when its response was emitted: its transport disconnected
\* while the handler call was in flight.
DisconnectedInFlight(i) ==
    LET d == dispatches[i]
    IN  /\ d.handler # "none"
        /\ d.events[1].to # {}
        /\ \E k \in 1..Len(d.events) :
               /\ d.events[k].kind = "assistant_response"
               /\ d.events[k].to = {}

\* C17 (as claimed): a dispatch in its handler call can always go on,
\* whatever the registry holds; a dispatch whose transport disconnected
\* in flight emits its response to the empty room without an error, and
\* once its save_conversation call has committed a successful exchange the
\* store holds the two entries of that exchange.
C17_DisconnectDoesNotAbort ==
    \A i \in DOMAIN dispatches :
        LET d == dispatches[i]
        IN  /\ d.pc = "await" => ENABLED handler_returns(i, FALSE)
            /\ DisconnectedInFlight(i)
               => /\ ~d.raised
                  /\ Kinds(d) = <<"assistant_typing", "assistant_response">>
                  /\ d.pc # "done" => d.saved = "none"
                  /\ (d.saved = "committed" /\ d.response.status = "success")
                     => Cardinality(StoredBy(i)) = 2

\* The assistant_response events of dispatch i.
Responses(i) ==
    {k \in 1..Len(dispatches[i].events) :
        dispatches[i].events[k].kind = "assistant_response"}

C20_NoHandlerWithoutCredential ==
    /\ \A h \in DOMAIN assistants :
           /\ Configured(env[CredentialOf[h]])
           /\ assistants[h] = env[CredentialOf[h]][1]
    /\ boot = "optimizer" => DOMAIN assistants = {"analyst"}
    /\ boot = "serving" => DOMAIN assistants = {"analyst", "optimizer"}
    /\ boot = "failed"
       => \E h \in {"analyst", "optimizer"} : ~Configured(env[CredentialOf[h]])
    /\ (\E h \in {"analyst", "optimizer"} : ~Configured(env[CredentialOf[h]]))
       => /\ boot # "serving"
          /\ active_sessions = << >>
          /\ dispatches = << >>
          /\ \A h \in {"analyst", "optimizer"} : calls[h] = 0

\* The import failed at the optimizer, whose credential is the empty
\* string, after the analyst had been constructed.
C20_Witness ==
    /\ boot = "failed"
    /\ DOMAIN assistants = {"analyst"}
    /\ env["CLAUDE_API_KEY_OPTIMIZER"] = <<"">>


\* C21: when the remote model call of a handler raises, the handler
\* returns the structure with status 'failed' and the exception text under
\* 'error'; the exception does not leave the handler (the dispatch emits
\* the structure as its assistant_response and no error event), and the
\* step writes nothing to the handler's cache, which therefore only ever
\* holds results of calls that returned.
C21_RemoteFailureContained ==
    /\ [](\A h \in Known : \A k \in DOMAIN cache[h] :
             cache[h][k] = SuccessResponse(h))
    /\ [][\A i \in DOMAIN dispatches :
             handler_returns(i, TRUE)
             => LET d == dispatches'[i]
                IN  /\ d.response.status = "failed"
                    /\ d.response.field = "error"
                    /\ ~d.raised
                    /\ Kinds(d) = <<"assistant_typing", "assistant_response">>
                    /\ d.events[2].response = d.response
                    /\ cache' = cache]_vars

\* The optimizer's remote call raised and its cache is still empty.
C21_Witness ==
    \E i \in DOMAIN dispatches :
        /\ dispatches[i].handler = "optimizer"
        /\ dispatches[i].remote = 1
        /\ dispatches[i].response = FailedResponse
        /\ cache["optimizer"] = << >>


C25_ExactlyOneCallPerInvocation ==
    \A i \in DOMAIN dispatches :
        dispatches[i].handler # "none" => dispatches[i].remote = 1

\* C25 (amended): a dispatch that invoked no handler issues no remote call;
\* an invocation issues no call when its context preparation raises and
\* exactly one otherwise, also when the handler's cache holds an entry for
\* the invocation's cache key; a result with status success or failed
\* always comes from the invocation's own call.
C25_CacheWriteOnly ==
    \A i \in DOMAIN dispatches :
        LET d == dispatches[i]
            pd == MakePortfolioData(d.portfolio_id)
        IN  /\ d.handler = "none" => d.remote = 0
            /\ d.handler # "none"
               => /\ d.raised <=> PrepareRaises(pd)
                  /\ d.remote = IF d.raised THEN 0 ELSE 1
            /\ d.keyCached => d.remote = 1
            /\ d.response.status \in {"success", "failed"} => d.remote = 1

\* A handler is in its remote call although its cache held an entry for
\* the same portfolio and holdings when it was invoked.
C25_Witness ==
    \E i \in DOMAIN dispatches :
        LET d == dispatches[i]
        IN  /\ d.keyCached
            /\ d.pc = "await"
            /\ d.remote = 1
            /\ CacheKey(d.handler, MakePortfolioData(d.portfolio_id)[1],
                        d.constraints) \in DOMAIN cache[d.handler]

\* C26: a dispatch has emitted no terminal event while its handler's
\* remote call is in flight, and exactly one from then on, whatever its
\* assistant type, its portfolio, the handler's outcome and the outcome of
\* save_conversation: one assistant_response or one error, never both,
\* never two of a kind.
C26_OneTerminalEvent ==
    \A i \in DOMAIN dispatches :
        LET d == dispatches[i]
            errors == {k \in Outcomes(i) : d.events[k].kind = "error"}
        IN  /\ d.pc \in {"await", "save", "commit", "done"}
            /\ d.pc = "await" => Outcomes(i) = {}
            /\ d.pc # "await"
               => /\ Cardinality(Outcomes(i)) = 1
                  /\ Cardinality(errors) = IF d.raised THEN 1 ELSE 0
                  /\ Cardinality(Responses(i)) = IF d.raised THEN 0 ELSE 1
                  /\ Outcomes(i) = {Len(d.events)}

\* One dispatch ended in an error because its handler raised, another one
\* answered and then failed to commit its exchange.
C26_Witness ==
    \E i, j \in DOMAIN dispatches :
        /\ dispatches[i].raised
        /\ dispatches[i].pc = "done"
        /\ dispatches[j].saved = "commit_failed"
        /\ Cardinality(Outcomes(i)) = 1
        /\ Cardinality(Outcomes(j)) = 1

\* C28 (as claimed): a dispatch with an unknown assistant type emits the
\* typing event with that tag and then the 'Unknown assistant type' payload
\* as an assistant_response, no error event, and, once its
\* save_conversation call has committed, a conversation of (session id,
\* that tag) holds its user entry followed by its assistant entry.
C28_UnknownTagExchangeStored ==
    \A i \in DOMAIN dispatches :
        LET d == dispatches[i]
        IN  d.assistant \notin Known
            => /\ Kinds(d) = <<"assistant_typing", "assistant_response">>
               /\ d.events[1].assistant = d.assistant
               /\ d.events[2].assistant = d.assistant
               /\ d.events[2].response = UnknownResponse
               /\ d.saved = "committed"
                  => \E c \in Matching(d.sid, d.assistant) :
                       \E k \in 1..(Len(conversations[c].messages) - 1) :
                          LET u == conversations[c].messages[k]
                              a == conversations[c].messages[k + 1]
                          IN  /\ u.by = i /\ u.role = "user"
                              /\ u.content = UserContent(d.message)
                              /\ a.by = i /\ a.role = "assistant"
                              /\ a.content = AssistantContent(UnknownResponse)


\* C27: a chat message handled for a transport that active_sessions does
\* not hold adds exactly one event, the 'Session not found' error, to what
\* that transport alone is sent; the step starts no dispatch (no typing
\* event, no portfolio snapshot), invokes no handler, writes no user or
\* conversation row and no cache entry, and every dispatch there is belongs
\* to a session id of a registered connection.
C27_SessionNotFoundOnly ==
    /\ [](\A i \in DOMAIN dispatches :
             \E t \in Transports :
                 direct[t] # << >> /\ ConnectedAs(t) = dispatches[i].sid)
    /\ [][\A t \in Transports :
             chat_message_no_session(t)
             => /\ direct'[t] =
                       Append(direct[t], Event("error", "", "", NoResponse, {t}))
                /\ \A u \in Transports \ {t} : direct'[u] = direct[u]
                /\ UNCHANGED <<dispatches, calls, users, conversations, cache,
                               active_sessions, rooms>>]_vars

\* A transport that connected and disconnected got the error for its chat
\* message, and nothing was dispatched.
C27_Witness ==
    \E t \in Transports :
        /\ tstate[t] \in {"closed", "reclosed"}
        /\ Len(direct[t]) = 2
        /\ direct[t][2].kind = "error"
        /\ direct[t][2].to = {t}
        /\ pending = 0
        /\ dispatches = << >>
        /\ conversations = << >>

\* C29: a step leaves the registry entry and the room memberships of every
\* transport that it does not connect or disconnect as they were, also
\* those of a transport registered with the same session id; a step that
\* handles a chat message or advances a dispatch changes neither the
\* registry nor any room membership.
C29_RegistryFrame ==
    [][/\ \A t \in Transports :
             tstate'[t] = tstate[t]
             => /\ (t \in DOMAIN active_sessions')
                       <=> (t \in DOMAIN active_sessions)
                /\ t \in DOMAIN active_sessions
                       => active_sessions'[t] = active_sessions[t]
                /\ rooms'[t] = rooms[t]
       /\ (pending' # pending \/ dispatches' # dispatches)
              => UNCHANGED <<active_sessions, rooms>>]_vars

\* Two transports connected with the same session id; one of them
\* disconnected, the other one is still registered and in the room, and
\* has had its chat message dispatched.
C29_Witness ==
    \E t, u \in Transports :
        /\ tstate[t] \in {"closed", "reclosed"}
        /\ ConnectedAs(t) = "s1"
        /\ u \in DOMAIN active_sessions
        /\ active_sessions[u] = "s1"
        /\ "s1" \in rooms[u]
        /\ Len(dispatches) = 1
        /\ dispatches[1].sid = "s1"


\* C22: at every time and for every key, _is_cache_valid answers true
\* exactly when the key is cached and the time is strictly before its
\* expiry, and then changes nothing; for a cached key whose expiry is not
\* in the future it answers false and removes the key, and nothing else,
\* from _cache and from _cache_expiry; for a key that is not cached it
\* answers false and changes neither map.  A direct call leaves exactly
\* that answer and those maps.
C22_CacheValidity ==
    /\ [](\A key \in Keys \cup {<<"non-existent-key", "">>} :
           LET v == _is_cache_valid(_cache, _cache_expiry, key, utcnow)
               fresh == /\ key \in DOMAIN _cache
                        /\ key \in DOMAIN _cache_expiry
                        /\ utcnow < _cache_expiry[key]
           IN  /\ v.valid <=> fresh
               /\ fresh => v.cache = _cache /\ v.expiry = _cache_expiry
               /\ (key \in DOMAIN _cache /\ ~fresh)
                  => /\ ~v.valid
                     /\ key \notin DOMAIN v.cache
                     /\ key \notin DOMAIN v.expiry
                     /\ \A k \in DOMAIN _cache \ {key} :
                            /\ k \in DOMAIN v.cache /\ v.cache[k] = _cache[k]
                            /\ k \in DOMAIN v.expiry
                            /\ v.expiry[k] = _cache_expiry[k]
               /\ key \notin DOMAIN _cache
                  => /\ ~v.valid
                     /\ v.cache = _cache
                     /\ v.expiry = _cache_expiry)
    /\ [][\A key \in Keys :
             is_cache_valid(key)
             => LET v == _is_cache_valid(_cache, _cache_expiry, key, utcnow)
                IN  /\ valid' = [key |-> key, result |-> v.valid]
                    /\ _cache' = v.cache
                    /\ _cache_expiry' = v.expiry]_vars

\* The one fetch there was got its data cached at time 0; a direct call at
\* the expiry time itself answered false and removed the entry.
C22_Witness ==
    /\ fetched = 1
    /\ \E r \in Requests : returned[r].kind = "fetched"
    /\ utcnow = cache_duration
    /\ valid.key \in Keys
    /\ ~valid.result
    /\ valid.key \notin DOMAIN _cache
    /\ _cache = << >>
    /\ _cache_expiry = << >>

\* C23 (as claimed): the list get_rebalancing_trades returned has one
\* trade for exactly the asset classes, over the keys of both allocations
\* with 0 for a missing key, whose difference |target - current| percent
\* of the portfolio value exceeds 1 percent of it; a trade is a buy when
\* the target exceeds the current percentage and a sell otherwise, its
\* amount is that difference in value (to the last digit), and no trade
\* is followed by one of a greater amount.
C23_TradesAboveOnePercent ==
    trades # << >>
    => LET list == trades[1]
           keys == DOMAIN current_allocation \cup DOMAIN target_allocation
           current(a) == Get(current_allocation, a, 0)
           target(a) == Get(target_allocation, a, 0)
           gap(a) == IF target(a) > current(a) THEN target(a) - current(a)
                     ELSE current(a) - target(a)
       IN  /\ {list[k].asset_class : k \in 1..Len(list)}
                  = {a \in keys : gap(a) * portfolio_value > portfolio_value}
           /\ \A j, k \in 1..Len(list) :
                  j # k => list[j].asset_class # list[k].asset_class
           /\ \A k \in 1..Len(list) :
                  LET a == list[k].asset_class
                  IN  /\ list[k].action =
                             IF target(a) > current(a) THEN "buy" ELSE "sell"
                      /\ list[k].amount.whole
                             = (gap(a) * portfolio_value) \div 100
                      /\ list[k].current_allocation = current(a)
                      /\ list[k].target_allocation = target(a)
           /\ \A k \in 1..(Len(list) - 1) :
                  ~Greater(list[k + 1].amount, list[k].amount)

==============================================================================
